---------------------------- MODULE Spec2Model ----------------------------
(***************************************************************************)
(* Model of packages/playwright-core/src/server/injected/domUtils.ts:      *)
(* shadow-DOM aware traversal (isInsideScope, closestCrossShadow, ...) and  *)
(* the element visibility judgment (isElementVisible and its helpers).      *)
(*                                                                         *)
(* The DOM is host state the functions only read.  A node is an integer:   *)
(* 1..MaxNodes are element and text nodes, -h is the ShadowRoot hosted by   *)
(* element h, Document is the document node, Fragment is a DocumentFragment *)
(* without a host, and null (0) stands for null/undefined.                  *)
(***************************************************************************)
EXTENDS Integers, Sequences, FiniteSets

\* Number of element/text nodes of the DOM under test.
MaxNodes == 3

\* Node.nodeType values the source compares against.
ELEMENT_NODE == 1
TEXT_NODE == 3
DOCUMENT_NODE == 9
DOCUMENT_FRAGMENT_NODE == 11

null == 0
Nodes == 1..MaxNodes
Document == MaxNodes + 1
Fragment == MaxNodes + 2
ShadowRootOf(h) == 0 - h

\* Tag names that matter to the source ('details,summary'), and one other.
Tags == {"DETAILS", "SUMMARY", "DIV"}
\* A css selector is modelled by the set of tag names it selects.
DetailsOrSummary == {"DETAILS", "SUMMARY"}
Selectors == {DetailsOrSummary, {"DIV"}}
\* Box sizes: zero and one positive representative (the source only tests > 0).
BoxSizes == {0, 1}
Displays == {"none", "contents", "inline", "block"}
Visibilities == {"visible", "hidden"}
\* The owning document of the nodes: absent, present without a rendering
\* view, or present with one.
OwnerViews == {"nodocument", "noview", "view"}

VARIABLES
  nodeType,            \* [Nodes -> {ELEMENT_NODE, TEXT_NODE}]
  parentNode,          \* [Nodes -> node]: null, Document, Fragment, an element, or a ShadowRoot
  nodeName,            \* [Nodes -> Tags]
  open,                \* [Nodes -> BOOLEAN]: HTMLDetailsElement.open
  display,             \* [Nodes -> Displays]: computed display
  visibility,          \* [Nodes -> Visibilities]: computed visibility
  width,               \* [Nodes -> BoxSizes]: bounding rect width (range rect for text)
  height,              \* [Nodes -> BoxSizes]: bounding rect height
  checkVisibilityAnswer, \* [Nodes -> BOOLEAN]: what element.checkVisibility(...) answers
  hasCheckVisibility,  \* BOOLEAN: Element.prototype.checkVisibility exists
  ownerView,           \* OwnerViews: ownerDocument / defaultView of the nodes
  call,                \* the last call made and what it returned
  pc,                  \* step machines: which function is running ("idle" when none)
  cur,                 \* step machines: the loop variable (element / node)
  stack,               \* step machine of isElementVisible: the call stack
  retval               \* step machine of isElementVisible: what the last callee returned

domVars == <<nodeType, parentNode, nodeName, open, display, visibility, width, height,
             checkVisibilityAnswer, hasCheckVisibility, ownerView>>
stepVars == <<pc, cur, stack, retval>>
vars == <<domVars, call, stepVars>>

Elements == {n \in Nodes : nodeType[n] = ELEMENT_NODE}
Texts == {n \in Nodes : nodeType[n] = TEXT_NODE}
ShadowRoots == {parentNode[n] : n \in {m \in Nodes : parentNode[m] < 0}}
\* Every node a scope can be.
AllNodes == Nodes \cup ShadowRoots \cup {Document, Fragment}

(***************************************************************************)
(* Host primitives the source reads.                                       *)
(***************************************************************************)
NodeTypeOf(n) ==
  IF n \in Nodes THEN nodeType[n]
  ELSE IF n = Document THEN DOCUMENT_NODE
  ELSE DOCUMENT_FRAGMENT_NODE

\* node.parentNode
ParentNodeOf(n) == IF n \in Nodes THEN parentNode[n] ELSE null

\* element.parentElement: the parent node when it is an element.
ParentElementOf(n) ==
  IF ParentNodeOf(n) \in Nodes /\ nodeType[ParentNodeOf(n)] = ELEMENT_NODE
  THEN ParentNodeOf(n) ELSE null

\* (fragment as ShadowRoot).host: only a ShadowRoot has one.
HostOf(n) == IF n < 0 THEN 0 - n ELSE null

\* element.firstChild / child.nextSibling, children in document order.
ChildrenOf(n) == {c \in Nodes : parentNode[c] = n}
Least(S) == CHOOSE x \in S : \A y \in S : x <= y
FirstChild(n) == IF ChildrenOf(n) = {} THEN null ELSE Least(ChildrenOf(n))
NextSibling(c) ==
  LET later == {d \in ChildrenOf(parentNode[c]) : d > c}
  IN IF parentNode[c] = null \/ later = {} THEN null ELSE Least(later)

RECURSIVE Contains(_, _)
\* scope.contains(element): element is scope or a descendant of it.
Contains(scope, n) ==
  IF n = null THEN FALSE
  ELSE IF n = scope THEN TRUE
  ELSE Contains(scope, ParentNodeOf(n))

Matches(e, css) == nodeName[e] \in css

RECURSIVE Closest(_, _)
\* element.closest(css): the nearest inclusive ancestor element matching css.
Closest(e, css) ==
  IF e = null THEN null
  ELSE IF Matches(e, css) THEN e
  ELSE Closest(ParentElementOf(e), css)

(***************************************************************************)
(* Shadow traversal.                                                       *)
(***************************************************************************)
parentElementOrShadowHost(element) ==
  IF ParentElementOf(element) # null THEN ParentElementOf(element)
  ELSE IF ParentNodeOf(element) = null THEN null
  ELSE IF NodeTypeOf(ParentNodeOf(element)) = DOCUMENT_FRAGMENT_NODE
          /\ HostOf(ParentNodeOf(element)) # null
       THEN HostOf(ParentNodeOf(element))
  ELSE null

RECURSIVE TopElement(_)
\* while (element.parentElement) element = element.parentElement;
TopElement(element) ==
  IF ParentElementOf(element) # null THEN TopElement(ParentElementOf(element))
  ELSE element

\* Mutant: the climb to the top of the tree is left out.
enclosingShadowHostWithoutClimb(element) == parentElementOrShadowHost(element)

enclosingShadowHost(element) == parentElementOrShadowHost(TopElement(element))

\* Mutant: plain DOM containment, no shadow boundary is crossed.
isInsideScopeNoShadow(scope, element) == element # null /\ Contains(scope, element)

\* Mutant: an if in place of the while, a single shadow boundary is crossed.
isInsideScopeOneHop(scope, element) ==
  /\ element # null
  /\ \/ Contains(scope, element)
     \/ enclosingShadowHost(element) # null
        /\ Contains(scope, enclosingShadowHost(element))

RECURSIVE isInsideScope(_, _)
isInsideScope(scope, element) ==
  IF element = null THEN FALSE
  ELSE IF Contains(scope, element) THEN TRUE
  ELSE isInsideScope(scope, enclosingShadowHost(element))

RECURSIVE RootNode(_)
\* while (node.parentNode) node = node.parentNode;
RootNode(node) ==
  IF ParentNodeOf(node) # null THEN RootNode(ParentNodeOf(node)) ELSE node

enclosingShadowRootOrDocument(element) ==
  LET node == RootNode(element)
  IN IF NodeTypeOf(node) = DOCUMENT_FRAGMENT_NODE \/ NodeTypeOf(node) = DOCUMENT_NODE
     THEN node ELSE null

\* Mutant: the search stops at the boundary of the element's own tree.
closestCrossShadowOwnTree(element, css) == Closest(element, css)

RECURSIVE closestCrossShadow(_, _)
closestCrossShadow(element, css) ==
  IF element = null THEN null
  ELSE IF Closest(element, css) # null THEN Closest(element, css)
  ELSE closestCrossShadow(enclosingShadowHost(element), css)

(***************************************************************************)
(* Style oracle accessor and the visibility judgment.                      *)
(***************************************************************************)
\* element.ownerDocument and document.defaultView
OwnerDocumentOf(element) == IF ownerView = "nodocument" THEN null ELSE Document
DefaultViewOf(document) == ownerView = "view"

\* undefined, as a CSSStyleDeclaration | undefined value
NoStyle == [defined |-> FALSE, display |-> "", visibility |-> ""]
\* defaultView.getComputedStyle(element)
ComputedStyleOf(element) ==
  [defined |-> TRUE, display |-> display[element], visibility |-> visibility[element]]

\* Mutant: the document's rendering view is not checked.
getElementComputedStyleNoViewCheck(element) ==
  IF OwnerDocumentOf(element) # null THEN ComputedStyleOf(element) ELSE NoStyle

getElementComputedStyle(element) ==
  IF OwnerDocumentOf(element) # null /\ DefaultViewOf(OwnerDocumentOf(element))
  THEN ComputedStyleOf(element)
  ELSE NoStyle

\* Mutant: the manual fallback for a missing checkVisibility is left out.
isElementStyleVisibilityVisibleNoFallback(element, style) ==
  LET st == IF style.defined THEN style ELSE getElementComputedStyle(element)
      detailsOrSummary == Closest(element, DetailsOrSummary)
  IN IF ~st.defined THEN TRUE
     ELSE IF hasCheckVisibility /\ ~checkVisibilityAnswer[element] THEN FALSE
     ELSE IF st.visibility # "visible" THEN FALSE
     ELSE TRUE

\* Mutant: the fallback does not exempt the details element itself.
isElementStyleVisibilityVisibleSelfHidden(element, style) ==
  LET st == IF style.defined THEN style ELSE getElementComputedStyle(element)
      detailsOrSummary == Closest(element, DetailsOrSummary)
  IN IF ~st.defined THEN TRUE
     ELSE IF hasCheckVisibility /\ ~checkVisibilityAnswer[element] THEN FALSE
     ELSE IF ~hasCheckVisibility
             /\ detailsOrSummary # null
             /\ nodeName[detailsOrSummary] = "DETAILS"
             /\ ~open[detailsOrSummary] THEN FALSE
     ELSE IF st.visibility # "visible" THEN FALSE
     ELSE TRUE

\* Mutant: the fallback looks for the match across shadow boundaries.
isElementStyleVisibilityVisibleCrossShadow(element, style) ==
  LET st == IF style.defined THEN style ELSE getElementComputedStyle(element)
      detailsOrSummary == closestCrossShadow(element, DetailsOrSummary)
  IN IF ~st.defined THEN TRUE
     ELSE IF hasCheckVisibility /\ ~checkVisibilityAnswer[element] THEN FALSE
     ELSE IF ~hasCheckVisibility
             /\ detailsOrSummary # element
             /\ detailsOrSummary # null
             /\ nodeName[detailsOrSummary] = "DETAILS"
             /\ ~open[detailsOrSummary] THEN FALSE
     ELSE IF st.visibility # "visible" THEN FALSE
     ELSE TRUE

\* style is NoStyle when the caller passes none.
isElementStyleVisibilityVisible(element, style) ==
  LET st == IF style.defined THEN style ELSE getElementComputedStyle(element)
      detailsOrSummary == Closest(element, DetailsOrSummary)
  IN IF ~st.defined THEN TRUE
     ELSE IF hasCheckVisibility /\ ~checkVisibilityAnswer[element] THEN FALSE
     ELSE IF ~hasCheckVisibility
             /\ detailsOrSummary # element
             /\ detailsOrSummary # null
             /\ nodeName[detailsOrSummary] = "DETAILS"
             /\ ~open[detailsOrSummary] THEN FALSE
     ELSE IF st.visibility # "visible" THEN FALSE
     ELSE TRUE

\* range.getBoundingClientRect() of a range selecting the text node
isVisibleTextNode(node) == width[node] > 0 /\ height[node] > 0

RECURSIVE isElementVisible(_)
RECURSIVE ContentsLoop(_)
RECURSIVE InlineLoop(_)

RECURSIVE ContentsLoopNoText(_)
\* Mutant: text children are not looked at.
ContentsLoopNoText(child) ==
  IF child = null THEN FALSE
  ELSE IF nodeType[child] = ELEMENT_NODE /\ isElementVisible(child) THEN TRUE
  ELSE ContentsLoopNoText(NextSibling(child))

RECURSIVE InlineLoopAnyDisplay(_)
\* Mutant: the child's display is not checked.
InlineLoopAnyDisplay(child) ==
  IF child = null THEN FALSE
  ELSE IF nodeType[child] = ELEMENT_NODE /\ isElementVisible(child) THEN TRUE
  ELSE InlineLoopAnyDisplay(NextSibling(child))

\* for (let child = element.firstChild; child; child = child.nextSibling), display:contents
ContentsLoop(child) ==
  IF child = null THEN FALSE
  ELSE IF nodeType[child] = ELEMENT_NODE /\ isElementVisible(child) THEN TRUE
  ELSE IF nodeType[child] = TEXT_NODE /\ isVisibleTextNode(child) THEN TRUE
  ELSE ContentsLoop(NextSibling(child))

\* the same loop of the inline quirk path
InlineLoop(child) ==
  IF child = null THEN FALSE
  ELSE IF nodeType[child] = ELEMENT_NODE
          /\ getElementComputedStyle(child).defined
          /\ getElementComputedStyle(child).display = "inline"
          /\ isElementVisible(child) THEN TRUE
  ELSE InlineLoop(NextSibling(child))

isElementVisible(element) ==
  LET style == getElementComputedStyle(element)
      visible == width[element] > 0 /\ height[element] > 0
  IN IF ~style.defined THEN TRUE
     ELSE IF style.display = "contents" THEN ContentsLoop(FirstChild(element))
     ELSE IF ~isElementStyleVisibilityVisible(element, style) THEN FALSE
     ELSE IF ~visible /\ style.display = "inline" /\ height[element] > 0
          THEN InlineLoop(FirstChild(element))
     ELSE visible

(***************************************************************************)
(* The DOMs the functions are applied to.                                  *)
(***************************************************************************)
\* Parent links of a well-formed DOM: a parent or host has a smaller number
\* (so the links are acyclic), only elements have children or a shadow root,
\* the document has at most one element child and no text child.
ParentChoices(n, types, roots) ==
  (IF types[n] = TEXT_NODE THEN roots \ {Document} ELSE roots)
  \cup {p \in 1..(n - 1) : types[p] = ELEMENT_NODE}
  \cup {ShadowRootOf(h) : h \in {p \in 1..(n - 1) : types[p] = ELEMENT_NODE}}

WellFormedParents(types, parents, roots) ==
  /\ \A n \in Nodes : parents[n] \in ParentChoices(n, types, roots)
  /\ Cardinality({n \in Nodes : parents[n] = Document}) <= 1

\* attachShadow is refused on details and summary: a host is another element.
HostsAllowed == \A n \in Nodes : parentNode[n] < 0 => nodeName[HostOf(parentNode[n])] = "DIV"

\* Under a collapsed details and outside any summary, across shadow boundaries.
UnderCollapsedDetails(e) ==
  LET d == closestCrossShadow(e, DetailsOrSummary)
  IN d # null /\ d # e /\ nodeName[d] = "DETAILS" /\ ~open[d]

\* What the native primitive is known to answer: false for an element that
\* generates no box (display none) and up the flat tree for the content of a
\* collapsed details; anything else (content-visibility, ...) is the host's.
CheckVisibilityConsistent ==
  \A e \in Elements :
    (display[e] = "none" \/ UnderCollapsedDetails(e)) => ~checkVisibilityAnswer[e]

NoCall == [op |-> "none", scope |-> null, element |-> null, css |-> {}, styled |-> FALSE,
           ret |-> null]
Idle == /\ call = NoCall
        /\ pc = "idle" /\ cur = null /\ stack = <<>> /\ retval = FALSE

AllOf(v) == [n \in Nodes |-> v]

\* Structure and tags vary freely, every style is the default.
InitTree ==
  /\ nodeType = AllOf(ELEMENT_NODE)
  /\ parentNode \in {f \in [Nodes -> (0 - MaxNodes)..Fragment] :
                       WellFormedParents(nodeType, f, {null, Document, Fragment})}
  /\ nodeName \in [Nodes -> Tags]
  /\ HostsAllowed
  /\ open = AllOf(FALSE)
  /\ display = AllOf("block") /\ visibility = AllOf("visible")
  /\ width = AllOf(1) /\ height = AllOf(1)
  /\ checkVisibilityAnswer = AllOf(TRUE) /\ hasCheckVisibility = TRUE
  /\ ownerView = "view"
  /\ Idle

(***************************************************************************)
(* Calls of the exported functions.                                        *)
(***************************************************************************)
CallIsInsideScope ==
  /\ call.op = "none"
  /\ \E scope \in AllNodes, element \in Elements \cup {null} :
       call' = [NoCall EXCEPT !.op = "isInsideScope", !.scope = scope, !.element = element,
                              !.ret = isInsideScope(scope, element)]
  /\ UNCHANGED <<domVars, stepVars>>

CallParentElementOrShadowHost ==
  /\ call.op = "none"
  /\ \E element \in Elements :
       call' = [NoCall EXCEPT !.op = "parentElementOrShadowHost", !.element = element,
                              !.ret = parentElementOrShadowHost(element)]
  /\ UNCHANGED <<domVars, stepVars>>

CallEnclosingShadowRootOrDocument ==
  /\ call.op = "none"
  /\ \E element \in Elements :
       call' = [NoCall EXCEPT !.op = "enclosingShadowRootOrDocument", !.element = element,
                              !.ret = enclosingShadowRootOrDocument(element)]
  /\ UNCHANGED <<domVars, stepVars>>

CallClosestCrossShadow ==
  /\ call.op = "none"
  /\ \E element \in Elements \cup {null}, css \in Selectors :
       call' = [NoCall EXCEPT !.op = "closestCrossShadow", !.element = element, !.css = css,
                              !.ret = closestCrossShadow(element, css)]
  /\ UNCHANGED <<domVars, stepVars>>

\* The caller takes the result; the next call starts from there (the functions
\* are synchronous and keep nothing between calls).
Return ==
  /\ call.op # "none"
  /\ call' = NoCall
  /\ UNCHANGED <<domVars, stepVars>>

NextTree ==
  \/ CallIsInsideScope
  \/ CallParentElementOrShadowHost
  \/ CallEnclosingShadowRootOrDocument
  \/ CallClosestCrossShadow
  \/ Return

SpecTree == InitTree /\ [][NextTree]_vars

\* One tree under the document, of elements and text nodes without details or
\* shadow roots; display, visibility and boxes vary; no native checkVisibility.
InitBox ==
  /\ nodeType \in {t \in [Nodes -> {ELEMENT_NODE, TEXT_NODE}] : t[1] = ELEMENT_NODE}
  /\ parentNode \in {f \in [Nodes -> 0..Document] :
                       /\ WellFormedParents(nodeType, f, {Document})
                       /\ \A n \in Nodes : f[n] >= 0}
  /\ nodeName = AllOf("DIV")
  /\ open = AllOf(FALSE)
  /\ display \in {f \in [Nodes -> Displays \ {"none"}] : \A n \in Texts : f[n] = "block"}
  /\ visibility \in {f \in [Nodes -> Visibilities] : \A n \in Texts : f[n] = "visible"}
  /\ width \in [Nodes -> BoxSizes]
  /\ height \in [Nodes -> BoxSizes]
  /\ checkVisibilityAnswer = AllOf(TRUE) /\ hasCheckVisibility = FALSE
  /\ ownerView \in OwnerViews
  /\ Idle

\* The element whose style varies in InitStyle: the last (deepest) one.
Subject == MaxNodes

\* Elements only, one light tree under the document with shadow trees hanging
\* off it; tags and open flags vary on every element; display, visibility, box
\* and the native answer vary on Subject, the other elements are plain boxes.
InitStyle ==
  /\ nodeType = AllOf(ELEMENT_NODE)
  /\ parentNode \in {f \in [Nodes -> (0 - MaxNodes)..Document] :
                       /\ WellFormedParents(nodeType, f, {Document})
                       /\ f[1] = Document}
  /\ nodeName \in [Nodes -> Tags]
  /\ HostsAllowed
  /\ open \in {f \in [Nodes -> BOOLEAN] : \A n \in Nodes : f[n] => nodeName[n] = "DETAILS"}
  /\ display \in {f \in [Nodes -> Displays] : \A n \in Nodes \ {Subject} : f[n] = "block"}
  /\ visibility \in {f \in [Nodes -> Visibilities] :
                       \A n \in Nodes \ {Subject} : f[n] = "visible"}
  /\ width \in {f \in [Nodes -> BoxSizes] : \A n \in Nodes \ {Subject} : f[n] = 1}
  /\ height = width
  /\ hasCheckVisibility \in BOOLEAN
  /\ checkVisibilityAnswer \in
       {f \in [Nodes -> BOOLEAN] :
          /\ ~hasCheckVisibility => f = AllOf(TRUE)
          /\ hasCheckVisibility =>
               \A n \in Nodes \ {Subject} : f[n] = ~UnderCollapsedDetails(n)}
  /\ hasCheckVisibility => CheckVisibilityConsistent
  /\ ownerView \in OwnerViews
  /\ Idle

InitVisible == InitStyle \/ InitBox

CallGetElementComputedStyle ==
  /\ call.op = "none"
  /\ \E element \in Elements :
       call' = [NoCall EXCEPT !.op = "getElementComputedStyle", !.element = element,
                              !.ret = getElementComputedStyle(element)]
  /\ UNCHANGED <<domVars, stepVars>>

\* styled: the caller passes the element's computed style, as isElementVisible does.
CallIsElementStyleVisibilityVisible ==
  /\ call.op = "none"
  /\ \E element \in Elements, styled \in BOOLEAN :
       call' = [NoCall EXCEPT !.op = "isElementStyleVisibilityVisible", !.element = element,
                              !.styled = styled,
                              !.ret = isElementStyleVisibilityVisible(element,
                                        IF styled THEN ComputedStyleOf(element) ELSE NoStyle)]
  /\ UNCHANGED <<domVars, stepVars>>

CallIsElementVisible ==
  /\ call.op = "none"
  /\ \E element \in Elements :
       call' = [NoCall EXCEPT !.op = "isElementVisible", !.element = element,
                              !.ret = isElementVisible(element)]
  /\ UNCHANGED <<domVars, stepVars>>

NextVisible ==
  \/ CallGetElementComputedStyle
  \/ CallIsElementStyleVisibilityVisible
  \/ CallIsElementVisible
  \/ Return

SpecVisible == InitVisible /\ [][NextVisible]_vars

(***************************************************************************)
(* Properties of the shadow traversal (SpecTree).                          *)
(***************************************************************************)
\* The shadow host of the tree a node lies in, none when its root is not a
\* ShadowRoot.
HostOfTree(n) == HostOf(RootNode(n))

RECURSIVE HostChain(_)
\* e, host(e), host(host(e)), ...
HostChain(e) == IF e = null THEN {} ELSE {e} \cup HostChain(HostOfTree(e))

\* One step up the composed path: the parent element, or the host of the
\* ShadowRoot the node is a child of.
Up(n) == IF ParentNodeOf(n) \in Nodes THEN ParentNodeOf(n) ELSE HostOf(ParentNodeOf(n))

RECURSIVE FirstMatchOnPath(_, _)
FirstMatchOnPath(n, css) ==
  IF n = null THEN null
  ELSE IF Matches(n, css) THEN n
  ELSE FirstMatchOnPath(Up(n), css)

\* C2: isInsideScope(scope, e) is true exactly when scope DOM-contains some
\* element of the chain e, host(e), host(host(e)), ...; so it is true when scope
\* contains e, true when the chain of shadow hosts reaches an element scope
\* contains (at any nesting depth), false when no element of the chain is
\* contained, and false when e is undefined (the chain is empty).
C2_IsInsideScopeIsHostChainContainment ==
  call.op = "isInsideScope" =>
    call.ret = (\E x \in HostChain(call.element) : Contains(call.scope, x))

\* A call that answers true for an element two shadow trees below the scope.
C2_Witness ==
  /\ call.op = "isInsideScope" /\ call.ret = TRUE
  /\ call.element # null
  /\ ~Contains(call.scope, call.element)
  /\ HostOfTree(call.element) # null
  /\ ~Contains(call.scope, HostOfTree(call.element))

\* C3: closestCrossShadow(e, sel) returns the first element matching sel on the
\* path e, its ancestors in its own tree, the shadow host of that tree, the
\* host's ancestors, and so on outward: e itself when e matches, an ancestor of
\* a shadow host when nothing in the shadow tree matches, none when nothing on
\* the path matches or e is undefined.
C3_ClosestCrossShadowIsFirstMatchOnPath ==
  call.op = "closestCrossShadow" => call.ret = FirstMatchOnPath(call.element, call.css)

\* A call that finds its match at a proper ancestor of the shadow host.
C3_Witness ==
  /\ call.op = "closestCrossShadow" /\ call.ret # null
  /\ Closest(call.element, call.css) = null
  /\ call.ret # HostOfTree(call.element)
  /\ Contains(call.ret, HostOfTree(call.element))

\* C10: isInsideScope is reflexive and transitive over elements: a call with
\* scope = element answers true, and a call isInsideScope(a, b) that answers
\* true makes isInsideScope(a, c) true for every c with isInsideScope(b, c).
C10_IsInsideScopeReflexiveTransitive ==
  (call.op = "isInsideScope" /\ call.scope \in Elements /\ call.element \in Elements) =>
    /\ call.scope = call.element => call.ret = TRUE
    /\ call.ret = TRUE =>
         \A c \in Elements :
           isInsideScope(call.element, c) => isInsideScope(call.scope, c)

\* a hosts the tree of b, b hosts the tree of c: the three lie in nested trees.
C10_Witness ==
  /\ call.op = "isInsideScope" /\ call.ret = TRUE
  /\ call.scope \in Elements /\ call.element \in Elements
  /\ HostOfTree(call.element) = call.scope
  /\ \E c \in Elements : HostOfTree(c) = call.element /\ isInsideScope(call.scope, c)

(***************************************************************************)
(* Properties of the visibility judgment (SpecVisible).                    *)
(***************************************************************************)
\* The call's element has a style to look at.
StyleResolved == ownerView = "view"

\* The nearest details-or-summary ancestor-or-self in the element's own tree
\* is a collapsed details element other than the element.
CollapsedDetailsAbove(e) ==
  \E d \in Elements :
    /\ d # e /\ Contains(d, e)
    /\ nodeName[d] = "DETAILS" /\ ~open[d]
    /\ \A x \in Elements :
         (Contains(d, x) /\ Contains(x, e) /\ x # d) => nodeName[x] \notin DetailsOrSummary

BoxPositive(n) == width[n] > 0 /\ height[n] > 0

\* C1: fail-open: when the owning document is absent or has no rendering view,
\* getElementComputedStyle returns none, and isElementVisible and
\* isElementStyleVisibilityVisible (without a precomputed style) return true,
\* whatever the geometry, the children or the native checkVisibility answer.
C1_FailOpenWithoutStyle ==
  ownerView # "view" =>
    /\ call.op = "getElementComputedStyle" => call.ret = NoStyle
    /\ call.op = "isElementVisible" => call.ret = TRUE
    /\ (call.op = "isElementStyleVisibilityVisible" /\ ~call.styled) => call.ret = TRUE

\* A document without a view; the element has an empty box, visibility hidden
\* and no visible child, and is still reported visible.
C1_Witness ==
  /\ ownerView = "noview"
  /\ call.op = "isElementVisible" /\ call.ret = TRUE
  /\ ~BoxPositive(call.element) /\ visibility[call.element] = "hidden"
  /\ ChildrenOf(call.element) = {}

C5_Original ==
  (call.op = "isElementVisible" /\ StyleResolved
     /\ BoxPositive(call.element) /\ visibility[call.element] = "visible")
    => call.ret = TRUE

\* C5 amended: a box positive in both dimensions and computed visibility visible
\* make isElementVisible true when the display is not contents and the element
\* is not hidden by the checkVisibility test: the native primitive, when there
\* is one, answers true, and otherwise the nearest details-or-summary
\* ancestor-or-self in its own tree is not a collapsed details other than it.
C5_PositiveBoxVisibleUnlessHidden ==
  (call.op = "isElementVisible" /\ StyleResolved
     /\ BoxPositive(call.element) /\ visibility[call.element] = "visible"
     /\ display[call.element] # "contents"
     /\ (hasCheckVisibility => checkVisibilityAnswer[call.element])
     /\ (~hasCheckVisibility => ~CollapsedDetailsAbove(call.element)))
    => call.ret = TRUE

\* A collapsed details element with a positive box is itself reported visible.
C5_Witness ==
  /\ call.op = "isElementVisible" /\ call.ret = TRUE /\ StyleResolved
  /\ ~hasCheckVisibility
  /\ nodeName[call.element] = "DETAILS" /\ ~open[call.element]
  /\ BoxPositive(call.element) /\ visibility[call.element] = "visible"
  /\ display[call.element] = "block"

\* C6: with display contents, isElementVisible is true exactly when a direct
\* child is an element for which isElementVisible is true or a text node whose
\* range box is positive in both dimensions; the element's own visibility,
\* checkVisibility answer and box play no part.
C6_ContentsVisibleIffChildVisible ==
  (call.op = "isElementVisible" /\ StyleResolved /\ display[call.element] = "contents")
    => call.ret =
         (\E c \in ChildrenOf(call.element) :
            \/ nodeType[c] = ELEMENT_NODE /\ isElementVisible(c)
            \/ nodeType[c] = TEXT_NODE /\ BoxPositive(c))

\* A contents element, itself hidden with an empty box, whose first child is a
\* zero-size text node and whose second child is a visible element.
C6_Witness ==
  /\ call.op = "isElementVisible" /\ call.ret = TRUE /\ StyleResolved
  /\ display[call.element] = "contents"
  /\ visibility[call.element] = "hidden" /\ ~BoxPositive(call.element)
  /\ \E t, c \in ChildrenOf(call.element) :
       /\ t < c
       /\ nodeType[t] = TEXT_NODE /\ ~BoxPositive(t)
       /\ nodeType[c] = ELEMENT_NODE /\ isElementVisible(c)

\* C7: an element visible by style with display inline and a box of zero width
\* and positive height is visible exactly when a direct element child has
\* display inline and is itself visible (text and non-inline children do not
\* count); an element with resolvable style whose display is neither contents
\* nor inline, or whose box height is zero, is not visible when its box is not
\* positive in both dimensions.
C7_InlineQuirkPath ==
  (call.op = "isElementVisible" /\ StyleResolved /\ display[call.element] # "contents") =>
    /\ (/\ isElementStyleVisibilityVisible(call.element, NoStyle)
        /\ display[call.element] = "inline"
        /\ width[call.element] = 0 /\ height[call.element] > 0)
       => call.ret =
            (\E c \in ChildrenOf(call.element) :
               /\ nodeType[c] = ELEMENT_NODE
               /\ display[c] = "inline"
               /\ isElementVisible(c))
    /\ (/\ display[call.element] # "inline" \/ height[call.element] = 0
        /\ ~BoxPositive(call.element))
       => call.ret = FALSE

\* The quirk path taken and answering true, next to a visible text child.
C7_Witness ==
  /\ call.op = "isElementVisible" /\ call.ret = TRUE /\ StyleResolved
  /\ display[call.element] = "inline"
  /\ width[call.element] = 0 /\ height[call.element] > 0
  /\ \E c \in ChildrenOf(call.element) : nodeType[c] = TEXT_NODE /\ BoxPositive(c)

\* The call judges the element on a style: one passed in, or one it resolves.
StyleAtHand == call.styled \/ StyleResolved

\* C8 as stated: without the native primitive the nearest details-or-summary
\* match is found across shadow-host boundaries (closestCrossShadow), so an
\* element whose nearest match, possibly outside its shadow tree, is a collapsed
\* details other than itself is reported not visible by style.
C8_Original ==
  (call.op = "isElementStyleVisibilityVisible" /\ StyleAtHand /\ ~hasCheckVisibility
     /\ UnderCollapsedDetails(call.element))
    => call.ret = FALSE

\* C8 amended: without the native primitive the nearest details-or-summary
\* match is found with the element's own closest, inside the element's own tree
\* only: the element is visible by style exactly when that match is not a
\* collapsed details other than the element and its visibility is visible; a
\* collapsed details outside the element's shadow tree does not hide it.
C8_FallbackLooksInOwnTreeOnly ==
  (call.op = "isElementStyleVisibilityVisible" /\ StyleAtHand /\ ~hasCheckVisibility)
    => call.ret = (/\ ~CollapsedDetailsAbove(call.element)
                   /\ visibility[call.element] = "visible")

\* An element in a shadow tree whose host lies under a collapsed details, with
\* no details or summary in its own tree: reported visible by style.
C8_Witness ==
  /\ call.op = "isElementStyleVisibilityVisible" /\ call.ret = TRUE
  /\ StyleAtHand /\ ~hasCheckVisibility
  /\ HostOfTree(call.element) # null
  /\ UnderCollapsedDetails(call.element)

(***************************************************************************)
(* The loops and the recursion, one iteration or one call at a time.       *)
(***************************************************************************)
\* InitBox with every element styled visible and a box of positive height:
\* the DOMs on which isElementVisible recurses.
InitNest ==
  /\ InitBox
  /\ ownerView = "view"
  /\ visibility = AllOf("visible")
  /\ height = AllOf(1)

InitSteps == InitTree \/ InitNest

Finish(value) ==
  /\ call' = [call EXCEPT !.ret = value]
  /\ pc' = "idle"
  /\ cur' = null

StartIsInsideScope ==
  /\ pc = "idle" /\ call.op = "none"
  /\ \E scope \in AllNodes, element \in Elements \cup {null} :
       /\ call' = [NoCall EXCEPT !.op = "isInsideScope", !.scope = scope,
                                 !.element = element, !.ret = FALSE]
       /\ cur' = element
  /\ pc' = "isInsideScope"
  /\ UNCHANGED <<stack, retval, domVars>>

\* One evaluation of while (element) { ... } of isInsideScope.
StepIsInsideScope ==
  /\ pc = "isInsideScope"
  /\ IF cur = null THEN Finish(FALSE)
     ELSE IF Contains(call.scope, cur) THEN Finish(TRUE)
     ELSE /\ cur' = enclosingShadowHost(cur)
          /\ UNCHANGED <<pc, call>>
  /\ UNCHANGED <<stack, retval, domVars>>

StartClosestCrossShadow ==
  /\ pc = "idle" /\ call.op = "none"
  /\ \E element \in Elements \cup {null}, css \in Selectors :
       /\ call' = [NoCall EXCEPT !.op = "closestCrossShadow", !.element = element,
                                 !.css = css]
       /\ cur' = element
  /\ pc' = "closestCrossShadow"
  /\ UNCHANGED <<stack, retval, domVars>>

\* One evaluation of while (element) { ... } of closestCrossShadow.
StepClosestCrossShadow ==
  /\ pc = "closestCrossShadow"
  /\ IF cur = null THEN Finish(null)
     ELSE IF Closest(cur, call.css) # null THEN Finish(Closest(cur, call.css))
     ELSE /\ cur' = enclosingShadowHost(cur)
          /\ UNCHANGED <<pc, call>>
  /\ UNCHANGED <<stack, retval, domVars>>

StartEnclosingShadowRootOrDocument ==
  /\ pc = "idle" /\ call.op = "none"
  /\ \E element \in Elements :
       /\ call' = [NoCall EXCEPT !.op = "enclosingShadowRootOrDocument",
                                 !.element = element]
       /\ cur' = element
  /\ pc' = "enclosingShadowRootOrDocument"
  /\ UNCHANGED <<stack, retval, domVars>>

\* One evaluation of while (node.parentNode), then the test of the root.
StepEnclosingShadowRootOrDocument ==
  /\ pc = "enclosingShadowRootOrDocument"
  /\ IF ParentNodeOf(cur) # null
     THEN /\ cur' = ParentNodeOf(cur)
          /\ UNCHANGED <<pc, call>>
     ELSE IF NodeTypeOf(cur) = DOCUMENT_FRAGMENT_NODE \/ NodeTypeOf(cur) = DOCUMENT_NODE
     THEN Finish(cur)
     ELSE Finish(null)
  /\ UNCHANGED <<stack, retval, domVars>>

\* A frame of isElementVisible: its element, the child its loop is at, and
\* where it stands: "enter", in the display:contents loop ("contents", or
\* "contentsCall" while the recursive call on the child runs), or in the loop of
\* the inline quirk path ("inline", "inlineCall").
Frame(element, child, at) == [element |-> element, child |-> child, at |-> at]
Top == stack[Len(stack)]
SetTop(frame) == [stack EXCEPT ![Len(stack)] = frame]

\* The result slot of call holds a value of the result's type while the call
\* runs; it is the result once pc is back to "idle".
\* return value; from the outermost frame it ends the call.
ReturnValue(value) ==
  IF Len(stack) = 1
  THEN /\ stack' = <<>>
       /\ retval' = FALSE
       /\ call' = [call EXCEPT !.ret = value]
       /\ pc' = "idle"
  ELSE /\ stack' = SubSeq(stack, 1, Len(stack) - 1)
       /\ retval' = value
       /\ UNCHANGED <<pc, call>>

Continue(frame) ==
  /\ stack' = SetTop(frame)
  /\ UNCHANGED <<pc, call, retval>>

\* isElementVisible(child) is called from the loop of the top frame.
Recurse(child, waiting) ==
  /\ stack' = Append(SetTop([Top EXCEPT !.at = waiting]), Frame(child, null, "enter"))
  /\ UNCHANGED <<pc, call, retval>>

StartIsElementVisible ==
  /\ pc = "idle" /\ call.op = "none"
  /\ \E element \in Elements :
       /\ call' = [NoCall EXCEPT !.op = "isElementVisible", !.element = element,
                                 !.ret = FALSE]
       /\ stack' = <<Frame(element, null, "enter")>>
  /\ pc' = "isElementVisible"
  /\ UNCHANGED <<cur, retval, domVars>>

\* The body of isElementVisible up to its first loop or return.
StepEnter ==
  /\ pc = "isElementVisible" /\ Top.at = "enter"
  /\ LET element == Top.element
         style == getElementComputedStyle(element)
         visible == width[element] > 0 /\ height[element] > 0
     IN IF ~style.defined THEN ReturnValue(TRUE)
        ELSE IF style.display = "contents"
             THEN Continue(Frame(element, FirstChild(element), "contents"))
        ELSE IF ~isElementStyleVisibilityVisible(element, style) THEN ReturnValue(FALSE)
        ELSE IF ~visible /\ style.display = "inline" /\ height[element] > 0
             THEN Continue(Frame(element, FirstChild(element), "inline"))
        ELSE ReturnValue(visible)
  /\ UNCHANGED <<cur, domVars>>

\* One child of the display:contents loop.
StepContentsLoop ==
  /\ pc = "isElementVisible" /\ Top.at = "contents"
  /\ IF Top.child = null THEN ReturnValue(FALSE)
     ELSE IF nodeType[Top.child] = ELEMENT_NODE THEN Recurse(Top.child, "contentsCall")
     ELSE IF nodeType[Top.child] = TEXT_NODE /\ isVisibleTextNode(Top.child)
          THEN ReturnValue(TRUE)
     ELSE Continue([Top EXCEPT !.child = NextSibling(Top.child)])
  /\ UNCHANGED <<cur, domVars>>

\* The recursive call on an element child of the display:contents loop is back.
StepContentsCallReturned ==
  /\ pc = "isElementVisible" /\ Top.at = "contentsCall"
  /\ IF retval THEN ReturnValue(TRUE)
     ELSE Continue(Frame(Top.element, NextSibling(Top.child), "contents"))
  /\ UNCHANGED <<cur, domVars>>

\* One child of the loop of the inline quirk path.
StepInlineLoop ==
  /\ pc = "isElementVisible" /\ Top.at = "inline"
  /\ IF Top.child = null THEN ReturnValue(FALSE)
     ELSE IF /\ nodeType[Top.child] = ELEMENT_NODE
             /\ getElementComputedStyle(Top.child).defined
             /\ getElementComputedStyle(Top.child).display = "inline"
          THEN Recurse(Top.child, "inlineCall")
     ELSE Continue([Top EXCEPT !.child = NextSibling(Top.child)])
  /\ UNCHANGED <<cur, domVars>>

\* The recursive call on an inline child is back.
StepInlineCallReturned ==
  /\ pc = "isElementVisible" /\ Top.at = "inlineCall"
  /\ IF retval THEN ReturnValue(TRUE)
     ELSE Continue(Frame(Top.element, NextSibling(Top.child), "inline"))
  /\ UNCHANGED <<cur, domVars>>

\* The caller takes the result of a finished call.
ReturnToCaller ==
  /\ pc = "idle" /\ call.op # "none"
  /\ call' = NoCall
  /\ UNCHANGED <<stepVars, domVars>>

\* The statements of a running call.
Steps ==
  \/ StepIsInsideScope
  \/ StepClosestCrossShadow
  \/ StepEnclosingShadowRootOrDocument
  \/ StepEnter
  \/ StepContentsLoop
  \/ StepContentsCallReturned
  \/ StepInlineLoop
  \/ StepInlineCallReturned

NextSteps ==
  \/ StartIsInsideScope
  \/ StepIsInsideScope
  \/ StartClosestCrossShadow
  \/ StepClosestCrossShadow
  \/ StartEnclosingShadowRootOrDocument
  \/ StepEnclosingShadowRootOrDocument
  \/ StartIsElementVisible
  \/ StepEnter
  \/ StepContentsLoop
  \/ StepContentsCallReturned
  \/ StepInlineLoop
  \/ StepInlineCallReturned
  \/ ReturnToCaller

SpecSteps == InitSteps /\ [][NextSteps]_vars

\* A running call executes its next statement: the code is synchronous and has
\* no suspension point.
FairSteps == SpecSteps /\ WF_vars(Steps)

\* The step machines return what the functions do.
StepsAgree ==
  (pc = "idle" /\ call.op # "none") =>
    call.ret = CASE call.op = "isInsideScope" -> isInsideScope(call.scope, call.element)
                 [] call.op = "closestCrossShadow" ->
                      closestCrossShadow(call.element, call.css)
                 [] call.op = "enclosingShadowRootOrDocument" ->
                      enclosingShadowRootOrDocument(call.element)
                 [] call.op = "isElementVisible" -> isElementVisible(call.element)

RECURSIVE ShadowDepth(_)
\* The number of shadow boundaries between an element and the outermost tree.
ShadowDepth(e) == IF HostOfTree(e) = null THEN 0 ELSE 1 + ShadowDepth(HostOfTree(e))

RECURSIVE SubtreeDepth(_)
\* The length of the longest chain of children below a node.
SubtreeDepth(n) ==
  IF ChildrenOf(n) = {} THEN 0
  ELSE LET depths == {SubtreeDepth(c) : c \in ChildrenOf(n)}
       IN 1 + CHOOSE d \in depths : \A x \in depths : x <= d

\* An iteration of the loop of isInsideScope or closestCrossShadow that does
\* not return goes to the host of the tree the element lies in: none, or an
\* element of a strictly outer tree.
LoopMovesOutward ==
  (pc \in {"isInsideScope", "closestCrossShadow"} /\ pc' = pc) =>
    /\ cur # null
    /\ cur' = HostOfTree(cur)
    /\ cur' # null => ShadowDepth(cur') < ShadowDepth(cur)

\* The frames of isElementVisible go from the queried element down a chain of
\* direct children, so there are no more recursive calls than the subtree below
\* the queried element is deep.
RecursionOnChildren ==
  pc = "isElementVisible" =>
    /\ stack # <<>>
    /\ stack[1].element = call.element
    /\ \A i \in 2..Len(stack) : parentNode[stack[i].element] = stack[i - 1].element
    /\ Len(stack) - 1 <= SubtreeDepth(call.element)

\* C9: on the (acyclic, finite) DOMs every call of isInsideScope,
\* closestCrossShadow, enclosingShadowRootOrDocument and isElementVisible
\* terminates; each iteration of the loops of isInsideScope and
\* closestCrossShadow moves to a strictly outer tree until no host exists, and
\* each recursive call of isElementVisible is made on a direct child, the
\* recursion never deeper than the subtree below the queried element.
C9_CallsTerminate ==
  /\ [](pc # "idle" => <>(pc = "idle"))
  /\ [][LoopMovesOutward]_vars
  /\ []RecursionOnChildren

\* A call of isElementVisible two recursive calls deep.
C9_Witness ==
  /\ pc = "isElementVisible" /\ Len(stack) = 3

=============================================================================
